---- MODULE Spec2Model ----
(***************************************************************************)
(* Model of 0x02-redis_basic/exercise.py: the Cache class, its two         *)
(* decorators count_calls and call_history, and the Redis commands they    *)
(* issue (flushdb, incr, rpush, set, exists, get), and replay with its     *)
(* reads (get, lrange).                                                    *)
(*                                                                         *)
(* Text (Python str) is a sequence of code points, binary (Python bytes)   *)
(* a sequence of byte values 0..255.  A Python value is a record           *)
(* [type, v]; a Redis entry is a record [kind, val].                       *)
(*                                                                         *)
(* The Redis server is taken to answer every command; the one failure of   *)
(* a wrapped call is the DataError redis-py raises from set() for a value  *)
(* it cannot encode.                                                       *)
(***************************************************************************)
EXTENDS Integers, Sequences, FiniteSets, TLC

\* ------------------------------------------------------------------ bounds
\* Store calls begun since the program started (finished or in flight).
MaxCalls == 3
\* The same, for the clients that share one store.
MaxSharedCalls == 2

\* ------------------------------------------------------- Python values
PyStr(s) == [type |-> "str", v |-> s]
PyBytes(b) == [type |-> "bytes", v |-> b]
PyInt(n) == [type |-> "int", v |-> n]
\* A float is held as a count of halves: 1.5 is PyFloat(3), 2.0 is PyFloat(4).
PyFloat(h) == [type |-> "float", v |-> h]
PyNone == [type |-> "none", v |-> 0]
PyExc(name) == [type |-> "exception", v |-> name]

\* Python ==: same type and same payload, or int and float of equal value.
PyEq(a, b) ==
    \/ a.type = b.type /\ a.v = b.v
    \/ a.type = "int" /\ b.type = "float" /\ 2 * a.v = b.v
    \/ a.type = "float" /\ b.type = "int" /\ a.v = 2 * b.v

\* ------------------------------------------------------- text rendering
RECURSIVE Digits(_)
\* Decimal digits of a natural number, as code points ("0" is 48).
Digits(n) == IF n < 10 THEN <<48 + n>> ELSE Digits(n \div 10) \o <<48 + (n % 10)>>

\* str(n) for an int.
IntStr(n) == IF n < 0 THEN <<45>> \o Digits(0 - n) ELSE Digits(n)

\* repr(x) for a float that is a whole number of halves: "1.5", "-0.5", "2.0".
FloatRepr(h) ==
    LET a == IF h < 0 THEN 0 - h ELSE h
    IN  (IF h < 0 THEN <<45>> ELSE <<>>) \o Digits(a \div 2)
            \o <<46>> \o (IF a % 2 = 0 THEN <<48>> ELSE <<53>>)

HexDigit(n) == IF n < 10 THEN 48 + n ELSE 87 + n

RECURSIVE BytesBody(_)
\* The inside of repr(b'...'): printable ASCII as is, any other byte as \xhh.
\* (The modelled alphabet has no quote, backslash, tab, CR or LF.)
BytesBody(b) ==
    IF b = <<>> THEN <<>>
    ELSE (IF b[1] >= 32 /\ b[1] <= 126
          THEN <<b[1]>>
          ELSE <<92, 120, HexDigit(b[1] \div 16), HexDigit(b[1] % 16)>>)
         \o BytesBody(Tail(b))

\* repr(v): 'text', b'bytes', 100, 1.5, None.
\* (Text of the modelled alphabet is printable and has no quote/backslash.)
Repr(v) ==
    CASE v.type = "str" -> <<39>> \o v.v \o <<39>>
      [] v.type = "bytes" -> <<98, 39>> \o BytesBody(v.v) \o <<39>>
      [] v.type = "int" -> IntStr(v.v)
      [] v.type = "float" -> FloatRepr(v.v)
      [] OTHER -> <<78, 111, 110, 101>>

RECURSIVE ReprJoin(_)
\* repr of each element, joined by ", ".
ReprJoin(args) ==
    IF Len(args) = 1 THEN Repr(args[1])
    ELSE Repr(args[1]) \o <<44, 32>> \o ReprJoin(Tail(args))

\* str(args) for the positional-argument tuple: "()", "('foo',)", "(1, 2)".
StrTuple(args) ==
    IF Len(args) = 0 THEN <<40, 41>>
    ELSE IF Len(args) = 1 THEN <<40>> \o Repr(args[1]) \o <<44, 41>>
    ELSE <<40>> \o ReprJoin(args) \o <<41>>

\* str(v): text is itself, anything else its repr.
Str(v) == IF v.type = "str" THEN v.v ELSE Repr(v)

\* ------------------------------------------------------- UTF-8
RECURSIVE Utf8Encode(_)
\* s.encode("utf-8") for code points below 2048.
Utf8Encode(s) ==
    IF s = <<>> THEN <<>>
    ELSE (IF s[1] < 128 THEN <<s[1]>>
          ELSE <<192 + (s[1] \div 64), 128 + (s[1] % 64)>>)
         \o Utf8Encode(Tail(s))

RECURSIVE Utf8Valid(_)
\* Whether b.decode("utf-8") succeeds (one- and two-byte forms; lead bytes
\* of the longer forms do not occur in the modelled alphabet).
Utf8Valid(b) ==
    IF b = <<>> THEN TRUE
    ELSE IF b[1] < 128 THEN Utf8Valid(Tail(b))
    ELSE IF b[1] >= 194 /\ b[1] <= 223 /\ Len(b) >= 2
            /\ b[2] >= 128 /\ b[2] <= 191
         THEN Utf8Valid(Tail(Tail(b)))
    ELSE FALSE

\* Variant: decode("latin-1"), one code point per byte.
Latin1Decode(b) == b

RECURSIVE Utf8Decode(_)
\* b.decode("utf-8") of valid input.
Utf8Decode(b) ==
    IF b = <<>> THEN <<>>
    ELSE IF b[1] < 128 THEN <<b[1]>> \o Utf8Decode(Tail(b))
    ELSE <<(b[1] - 192) * 64 + (b[2] - 128)>> \o Utf8Decode(Tail(Tail(b)))

\* ------------------------------------------------------- int(bytes)
IsSpace(x) == x \in {9, 10, 11, 12, 13, 32}
IsDigit(x) == x >= 48 /\ x <= 57

RECURSIVE LStrip(_)
LStrip(b) == IF b # <<>> /\ IsSpace(b[1]) THEN LStrip(Tail(b)) ELSE b

RECURSIVE RStrip(_)
RStrip(b) ==
    IF b # <<>> /\ IsSpace(b[Len(b)]) THEN RStrip(SubSeq(b, 1, Len(b) - 1)) ELSE b

\* The literal without surrounding white space and without its sign.
IntBody(b) ==
    LET s == RStrip(LStrip(b))
    IN  IF s # <<>> /\ s[1] \in {43, 45} THEN Tail(s) ELSE s

IntNegative(b) ==
    LET s == LStrip(b) IN s # <<>> /\ s[1] = 45

\* int(b) accepts: optional white space, optional sign, digits with single
\* underscores between them.
IntValid(b) ==
    LET d == IntBody(b)
    IN  /\ d # <<>>
        /\ IsDigit(d[1]) /\ IsDigit(d[Len(d)])
        /\ \A i \in 1..Len(d) : IsDigit(d[i]) \/ d[i] = 95
        /\ \A i \in 1..(Len(d) - 1) : ~(d[i] = 95 /\ d[i + 1] = 95)

RECURSIVE DigitsValue(_, _)
DigitsValue(d, acc) ==
    IF d = <<>> THEN acc
    ELSE IF d[1] = 95 THEN DigitsValue(Tail(d), acc)
    ELSE DigitsValue(Tail(d), acc * 10 + (d[1] - 48))

\* int(b) of a valid literal.
IntParse(b) ==
    LET n == DigitsValue(IntBody(b), 0)
    IN  IF IntNegative(b) THEN 0 - n ELSE n

\* ------------------------------------------------------- Redis commands
\* The database maps a key (bytes) to [kind |-> "string", val |-> bytes] or
\* [kind |-> "list", val |-> sequence of bytes].
EmptyDb == [k \in {} |-> 0]

Put(d, k, e) == [x \in (DOMAIN d) \cup {k} |-> IF x = k THEN e ELSE d[x]]

\* redis-py accepts bytes, str, int and float as a value; anything else
\* (None, a list, ...) raises DataError before the command is sent.
Encodable(v) == v.type \in {"str", "bytes", "int", "float"}

\* redis-py's encoding of a value: bytes as is, int and float by repr,
\* str by UTF-8.
RedisEncode(v) ==
    CASE v.type = "bytes" -> v.v
      [] v.type = "int" -> IntStr(v.v)
      [] v.type = "float" -> FloatRepr(v.v)
      [] OTHER -> Utf8Encode(v.v)

\* Keys are passed as str and sent as their UTF-8 bytes.
DbKey(text) == Utf8Encode(text)

\* Variant: the constructor without flushdb().
RedisFlushdbSkipped(d) == d

RedisFlushdb(d) == EmptyDb

RedisSet(d, k, v) == Put(d, k, [kind |-> "string", val |-> RedisEncode(v)])

RedisExists(d, k) == k \in DOMAIN d

\* GET: the stored bytes, or None when the key is absent.
RedisGet(d, k) == IF k \in DOMAIN d THEN PyBytes(d[k].val) ELSE PyNone

\* Variant: SET key 1 in place of INCR.
RedisIncrRestart(d, k) == Put(d, k, [kind |-> "string", val |-> IntStr(1)])

\* INCR: an absent key counts as 0; the new value is stored as decimal text.
RedisIncr(d, k) ==
    LET old == IF k \in DOMAIN d THEN IntParse(d[k].val) ELSE 0
    IN  Put(d, k, [kind |-> "string", val |-> IntStr(old + 1)])

\* Variant: LPUSH, which adds at the head.
RedisLpush(d, k, v) ==
    LET old == IF k \in DOMAIN d THEN d[k].val ELSE <<>>
    IN  Put(d, k, [kind |-> "list", val |-> <<RedisEncode(v)>> \o old])

\* Variant: the list written back as the new element alone.
RedisRpushOverwrites(d, k, v) == Put(d, k, [kind |-> "list", val |-> <<RedisEncode(v)>>])

\* RPUSH: append at the tail, creating the list when absent.
RedisRpush(d, k, v) ==
    LET old == IF k \in DOMAIN d THEN d[k].val ELSE <<>>
    IN  Put(d, k, [kind |-> "list", val |-> Append(old, RedisEncode(v))])

\* LRANGE key 0 -1: the whole list, empty when absent.
RedisLrangeAll(d, k) == IF k \in DOMAIN d THEN d[k].val ELSE <<>>

\* ------------------------------------------------------- names and inputs
\* method.__qualname__ of Cache.store: "Cache.store".
QualName == <<67, 97, 99, 104, 101, 46, 115, 116, 111, 114, 101>>
\* key + ":inputs" and key + ":outputs".
InputsName == QualName \o <<58, 105, 110, 112, 117, 116, 115>>
OutputsName == QualName \o <<58, 111, 117, 116, 112, 117, 116, 115>>

\* Variant: a key that is not generated anew for each call.
UuidFixed(n) == <<97, 49>>

\* str(uuid.uuid4()): the n-th key generated by the process.  uuid4 values
\* do not repeat, so the n-th key is a text not generated before.
UuidText(n) == <<97>> \o Digits(n)
\* A key text that uuid4 never produced.
UnwrittenKey == <<97, 48>>

Foo == PyStr(<<102, 111, 111>>)
EAcute == PyStr(<<233>>)
BFF == PyBytes(<<255>>)
I100 == PyInt(100)
F15 == PyFloat(3)

\* Values a caller passes to store: the four documented types, and None,
\* which Python lets through and redis-py rejects.
Data == {Foo, EAcute, BFF, I100, F15, PyNone}

\* A call store(d) or store(data=d): the positional tuple and the value of
\* the keyword `data` (empty when passed positionally).
StoreCalls ==
    {[args |-> <<d>>, kwargs |-> <<>>] : d \in Data}
        \cup {[args |-> <<>>, kwargs |-> <<Foo>>]}

\* The parameter `data` as Python binds it.
BoundData(call) == IF Len(call.args) = 1 THEN call.args[1] ELSE call.kwargs[1]

GetOps == {"get", "get_str", "get_int"}

Clients == {1, 2}
\* The client of the single-threaded program.
Main == 1

VARIABLES
    db,      \* the Redis database
    pc,      \* per client: where its call in flight stands
    frame,   \* per client: the local variables of its call in flight
    ret,     \* per client: what its last call handed back to the caller
    calls,   \* the store calls that finished, in order, with their outcome
    epoch,   \* Len(calls) when a Cache was last constructed
    issued,  \* number of uuid4 keys generated so far
    out      \* per client: the lines its last call printed

vars == <<db, pc, frame, ret, calls, epoch, issued, out>>

\* `inputs` is the local variable of replay.
NoFrame == [op |-> "none", args |-> <<>>, kwargs |-> <<>>, key |-> <<>>,
            inputs |-> <<>>]
NoRet == [op |-> "none", key |-> <<>>, raised |-> FALSE, val |-> PyNone,
          applied |-> FALSE]
Returned(op, key, val, applied) ==
    [op |-> op, key |-> key, raised |-> FALSE, val |-> val, applied |-> applied]
Raised(op, key, name, applied) ==
    [op |-> op, key |-> key, raised |-> TRUE, val |-> PyExc(name),
     applied |-> applied]

InFlight == {c \in Clients : pc[c] # "idle"}
StoresInFlight == {c \in Clients : pc[c] \in {"hist_in", "raw", "hist_out"}}

\* Cache(): redis.Redis() and flushdb().
Construct(c) ==
    /\ pc[c] = "idle"
    /\ db' = RedisFlushdb(db)
    /\ ret' = [ret EXCEPT ![c] = Returned("init", <<>>, PyNone, FALSE)]
    /\ epoch' = Len(calls)
    /\ out' = [out EXCEPT ![c] = <<>>]
    /\ UNCHANGED <<pc, frame, calls, issued>>

Init ==
    /\ db = EmptyDb
    /\ pc = [c \in Clients |-> "idle"]
    /\ frame = [c \in Clients |-> NoFrame]
    /\ ret = [c \in Clients |->
                IF c = Main THEN Returned("init", <<>>, PyNone, FALSE) ELSE NoRet]
    /\ calls = <<>>
    /\ epoch = 0
    /\ issued = 0
    /\ out = [c \in Clients |-> <<>>]

\* ------------------------------------------------------- Cache.store
\* count_calls.wrapper: incr(key), then call the history wrapper.
CountCalls(c, call) ==
    /\ pc[c] = "idle"
    /\ Len(calls) + Cardinality(StoresInFlight) < MaxCalls
    /\ db' = RedisIncr(db, DbKey(QualName))
    /\ pc' = [pc EXCEPT ![c] = "hist_in"]
    /\ frame' = [frame EXCEPT ![c] =
                    [op |-> "store", args |-> call.args,
                     kwargs |-> call.kwargs, key |-> <<>>, inputs |-> <<>>]]
    /\ ret' = [ret EXCEPT ![c] = NoRet]
    /\ out' = [out EXCEPT ![c] = <<>>]
    /\ UNCHANGED <<calls, epoch, issued>>

\* Variant: a history wrapper that records nothing before the call.
RecordInputSkipped(d, args) == d

\* rpush(inputs, str(args)), before method() is called.
RecordInput(d, args) == RedisRpush(d, DbKey(InputsName), PyStr(StrTuple(args)))

\* call_history.wrapper, first half: rpush(inputs, str(args)).
HistoryInput(c) ==
    /\ pc[c] = "hist_in"
    /\ db' = RecordInput(db, frame[c].args)
    /\ pc' = [pc EXCEPT ![c] = "raw"]
    /\ UNCHANGED <<frame, ret, calls, epoch, issued, out>>

\* Variant: set(key, str(data)).
StoreWriteStr(d, key, data) == RedisSet(d, DbKey(key), PyStr(Str(data)))

\* What the raw store writes: set(key, data).
StoreWrite(d, key, data) == RedisSet(d, DbKey(key), data)

\* Variant: a history wrapper that records an output for a failed call too.
HistoryOnRaiseRecords(d) == RedisRpush(d, DbKey(OutputsName), PyStr(Str(PyNone)))

\* Variant: a history wrapper that takes the input back when the call fails.
HistoryOnRaiseRetracts(d) ==
    LET k == DbKey(InputsName)
    IN  Put(d, k, [kind |-> "list", val |-> SubSeq(d[k].val, 1, Len(d[k].val) - 1)])

\* call_history.wrapper when method() raises: line 43 is skipped and the
\* exception passes through, the database as it is.
HistoryOnRaise(d) == d

\* Variant: a counting wrapper that takes its increment back on failure.
CountOnRaiseRollsBack(d) ==
    LET k == DbKey(QualName)
    IN  Put(d, k, [kind |-> "string", val |-> IntStr(IntParse(d[k].val) - 1)])

\* count_calls.wrapper when method() raises: there is no handler, the
\* exception passes through, the database as it is.
CountOnRaise(d) == d

\* Variant: a wrapper that calls the method and forgets to return its value.
WrapperResultDropped(data) == PyNone

\* `return data` of call_history.wrapper, `return method(...)` of
\* count_calls.wrapper: the wrapped method's value, unchanged.
WrapperResult(data) == data

\* The undecorated Cache.store: key = str(uuid4()); set(key, data).
\* When set raises, the exception leaves both wrappers and reaches the caller.
RawStore(c) ==
    /\ pc[c] = "raw"
    /\ issued' = issued + 1
    /\ LET key == UuidText(issued + 1)
           data == BoundData(frame[c])
       IN  IF Encodable(data)
           THEN /\ db' = StoreWrite(db, key, data)
                /\ frame' = [frame EXCEPT ![c].key = key]
                /\ pc' = [pc EXCEPT ![c] = "hist_out"]
                /\ UNCHANGED <<ret, calls>>
           ELSE /\ ret' = [ret EXCEPT ![c] = Raised("store", <<>>, "DataError", FALSE)]
                /\ calls' = Append(calls,
                       [args |-> frame[c].args, kwargs |-> frame[c].kwargs,
                        raised |-> TRUE, val |-> PyExc("DataError")])
                /\ frame' = [frame EXCEPT ![c] = NoFrame]
                /\ pc' = [pc EXCEPT ![c] = "idle"]
                /\ db' = CountOnRaise(HistoryOnRaise(db))
    /\ UNCHANGED <<epoch, out>>

\* call_history.wrapper, second half: rpush(outputs, str(data)); return data.
\* count_calls.wrapper returns the same value.
HistoryOutput(c) ==
    /\ pc[c] = "hist_out"
    /\ LET data == PyStr(frame[c].key)
       IN  /\ db' = RedisRpush(db, DbKey(OutputsName), PyStr(Str(data)))
           /\ ret' = [ret EXCEPT ![c] =
                         Returned("store", <<>>, WrapperResult(data), FALSE)]
           /\ calls' = Append(calls,
                  [args |-> frame[c].args, kwargs |-> frame[c].kwargs,
                   raised |-> FALSE, val |-> WrapperResult(data)])
    /\ frame' = [frame EXCEPT ![c] = NoFrame]
    /\ pc' = [pc EXCEPT ![c] = "idle"]
    /\ UNCHANGED <<epoch, issued, out>>

\* ------------------------------------------------------- Cache.get
\* The transform each accessor passes to get: none, bytes.decode, int.
FnOf(op) == CASE op = "get_str" -> "decode" [] op = "get_int" -> "int" [] OTHER -> "none"

\* fn = lambda x: x.decode("utf-8"): text, or the exception raised
\* (None has no decode).
FnDecode(op, key, data) ==
    IF data.type # "bytes" THEN Raised(op, key, "AttributeError", TRUE)
    ELSE IF Utf8Valid(data.v)
         THEN Returned(op, key, PyStr(Utf8Decode(data.v)), TRUE)
         ELSE Raised(op, key, "UnicodeDecodeError", TRUE)

\* Variant: a get_int that turns a malformed value into None.
FnIntLenient(op, key, data) ==
    IF data.type = "bytes" /\ IntValid(data.v)
    THEN Returned(op, key, PyInt(IntParse(data.v)), TRUE)
    ELSE Returned(op, key, PyNone, TRUE)

\* fn = int: the integer, or the exception raised (int(None) is a TypeError).
FnInt(op, key, data) ==
    IF data.type # "bytes" THEN Raised(op, key, "TypeError", TRUE)
    ELSE IF IntValid(data.v)
         THEN Returned(op, key, PyInt(IntParse(data.v)), TRUE)
         ELSE Raised(op, key, "ValueError", TRUE)

\* `if fn is not None: return fn(data)`, else `return data`.
ApplyFn(op, key, data) ==
    CASE FnOf(op) = "none" -> Returned(op, key, data, FALSE)
      [] FnOf(op) = "decode" -> FnDecode(op, key, data)
      [] OTHER -> FnInt(op, key, data)

\* Variant: get without the existence check.
KeyExistsUnchecked(d, key) == TRUE

\* The condition of `if self._redis.exists(key)`.
KeyExists(d, key) == RedisExists(d, DbKey(key))

\* Variant: get decorated with count_calls as store is.
GetCounted(d) == RedisIncr(d, DbKey(QualName))

\* get, get_str and get_int carry no decorator: entering them sends no
\* command that writes.
GetUndecorated(d) == d

\* Keys a caller may ask for: every key store generated, and one it never did.
GetKeys == {UuidText(n) : n \in 1..issued} \cup {UnwrittenKey}

\* get / get_str / get_int up to the existence check; None when absent.
GetCall(c, op, key) ==
    /\ pc[c] = "idle"
    /\ op \in GetOps /\ key \in GetKeys
    /\ IF KeyExists(db, key)
       THEN /\ pc' = [pc EXCEPT ![c] = "get_read"]
            /\ frame' = [frame EXCEPT ![c] =
                            [op |-> op, args |-> <<>>, kwargs |-> <<>>, key |-> key,
                             inputs |-> <<>>]]
            /\ ret' = [ret EXCEPT ![c] = NoRet]
       ELSE /\ ret' = [ret EXCEPT ![c] = Returned(op, key, PyNone, FALSE)]
            /\ UNCHANGED <<pc, frame>>
    /\ out' = [out EXCEPT ![c] = <<>>]
    /\ db' = GetUndecorated(db)
    /\ UNCHANGED <<calls, epoch, issued>>

\* data = self._redis.get(key); return fn(data) or data.
GetRead(c) ==
    /\ pc[c] = "get_read"
    /\ ret' = [ret EXCEPT ![c] =
                  ApplyFn(frame[c].op, frame[c].key, RedisGet(db, DbKey(frame[c].key)))]
    /\ frame' = [frame EXCEPT ![c] = NoFrame]
    /\ pc' = [pc EXCEPT ![c] = "idle"]
    /\ UNCHANGED <<db, calls, epoch, issued, out>>

\* ------------------------------------------------------- replay
\* What a caller passes to replay: the decorated Cache.store, a function
\* object that has __qualname__ and no attribute _qualname_; or a callable
\* on which the attribute _qualname_ was set to "Cache.store".
ReplayArgs == {[hasAttr |-> FALSE], [hasAttr |-> TRUE]}

\* "{} was called {} times:".format(name, calls)
HeaderLine(name, count) ==
    name \o <<32, 119, 97, 115, 32, 99, 97, 108, 108, 101, 100, 32>>
         \o count \o <<32, 116, 105, 109, 101, 115, 58>>

\* "{}(*{}) -> {}".format(name, i, o)
CallLine(name, i, o) == name \o <<40, 42>> \o i \o <<41, 32, 45, 62, 32>> \o o

Min(a, b) == IF a < b THEN a ELSE b

\* zip(inputs, outputs): the pairs up to the shorter list.
Zip(ins, outs) == [i \in 1..Min(Len(ins), Len(outs)) |-> <<ins[i], outs[i]>>]

\* The pairs the loop prints before a decode fails: all of them when every
\* entry is UTF-8.
Printable(pairs) ==
    LET bad == {i \in 1..Len(pairs) :
                   ~Utf8Valid(pairs[i][1]) \/ ~Utf8Valid(pairs[i][2])}
    IN  IF bad = {} THEN Len(pairs)
        ELSE (CHOOSE i \in bad : \A j \in bad : i <= j) - 1

\* The lines of the loop over zip(inputs, outputs).
TranscriptLines(name, pairs) ==
    [i \in 1..Printable(pairs) |->
        CallLine(name, Utf8Decode(pairs[i][1]), Utf8Decode(pairs[i][2]))]

\* Variant: a replay that builds a Cache, whose constructor flushes.
ReplayConnectFlushes(d) == RedisFlushdb(d)

\* cache = redis.Redis(): a new client of the same database.
ReplayConnect(d) == d

\* replay, lines 57-60: name = method._qualname_; the counter is read with
\* get(name) and decoded; the header is printed.
ReplayCall(c, m) ==
    /\ pc[c] = "idle"
    /\ m \in ReplayArgs
    /\ IF ~m.hasAttr
       THEN /\ ret' = [ret EXCEPT ![c] = Raised("replay", <<>>, "AttributeError", FALSE)]
            /\ out' = [out EXCEPT ![c] = <<>>]
            /\ UNCHANGED <<db, pc, frame>>
       ELSE LET d == ReplayConnect(db)
                got == RedisGet(d, DbKey(QualName))
            IN  /\ db' = d
                /\ IF got.type # "bytes"
                   THEN /\ ret' = [ret EXCEPT ![c] =
                                      Raised("replay", QualName, "AttributeError", FALSE)]
                        /\ out' = [out EXCEPT ![c] = <<>>]
                        /\ UNCHANGED <<pc, frame>>
                   ELSE /\ out' = [out EXCEPT ![c] =
                                      <<HeaderLine(QualName, Utf8Decode(got.v))>>]
                        /\ pc' = [pc EXCEPT ![c] = "replay_in"]
                        /\ frame' = [frame EXCEPT ![c] =
                                        [NoFrame EXCEPT !.op = "replay", !.key = QualName]]
                        /\ ret' = [ret EXCEPT ![c] = NoRet]
    /\ UNCHANGED <<calls, epoch, issued>>

\* replay, line 61: inputs = cache.lrange(name + ":inputs", 0, -1).
ReplayInputs(c) ==
    /\ pc[c] = "replay_in"
    /\ frame' = [frame EXCEPT ![c].inputs = RedisLrangeAll(db, DbKey(InputsName))]
    /\ pc' = [pc EXCEPT ![c] = "replay_out"]
    /\ UNCHANGED <<db, ret, calls, epoch, issued, out>>

\* replay, lines 62-65: outputs = cache.lrange(...); one line per pair of
\* zip(inputs, outputs); the function returns None.
ReplayOutputs(c) ==
    /\ pc[c] = "replay_out"
    /\ LET pairs == Zip(frame[c].inputs, RedisLrangeAll(db, DbKey(OutputsName)))
       IN  /\ out' = [out EXCEPT ![c] = out[c] \o TranscriptLines(frame[c].key, pairs)]
           /\ ret' = [ret EXCEPT ![c] =
                         IF Printable(pairs) = Len(pairs)
                         THEN Returned("replay", frame[c].key, PyNone, FALSE)
                         ELSE Raised("replay", frame[c].key, "UnicodeDecodeError", FALSE)]
    /\ frame' = [frame EXCEPT ![c] = NoFrame]
    /\ pc' = [pc EXCEPT ![c] = "idle"]
    /\ UNCHANGED <<db, calls, epoch, issued>>

\* ------------------------------------------------------- the program
\* One client; every call runs to its end before the next begins.
Next ==
    \/ Construct(Main)
    \/ \E call \in StoreCalls : CountCalls(Main, call)
    \/ HistoryInput(Main)
    \/ RawStore(Main)
    \/ HistoryOutput(Main)
    \/ \E op \in GetOps : \E key \in GetKeys : GetCall(Main, op, key)
    \/ GetRead(Main)
    \/ \E m \in ReplayArgs : ReplayCall(Main, m)
    \/ ReplayInputs(Main)
    \/ ReplayOutputs(Main)

Spec == Init /\ [][Next]_vars

\* Store calls of the clients that share one store: one that completes with
\* text, one with an integer, and one that fails.
SharedStoreCalls ==
    {[args |-> <<d>>, kwargs |-> <<>>] : d \in {Foo, I100, PyNone}}

\* Several clients on one store: the steps of their calls interleave, each
\* Redis command being atomic.  A Cache is constructed only while no store
\* call is in flight; a get may be in flight then.
NextShared ==
    \E c \in Clients :
        \/ StoresInFlight = {} /\ Construct(c)
        \/ /\ Len(calls) + Cardinality(StoresInFlight) < MaxSharedCalls
           /\ \E call \in SharedStoreCalls : CountCalls(c, call)
        \/ HistoryInput(c)
        \/ RawStore(c)
        \/ HistoryOutput(c)
        \/ \E op \in GetOps : \E key \in GetKeys : GetCall(c, op, key)
        \/ GetRead(c)

SpecShared == Init /\ [][NextShared]_vars

TypeOK ==
    /\ pc \in [Clients -> {"idle", "hist_in", "raw", "hist_out", "get_read",
                           "replay_in", "replay_out"}]
    /\ epoch \in 0..Len(calls)
    /\ issued \in 0..MaxCalls

\* ------------------------------------------------------- observations
\* The finished store calls since the last construction.
Since == SubSeq(calls, epoch + 1, Len(calls))
AllCompleted == \A i \in 1..Len(Since) : ~Since[i].raised
NumCompleted == Cardinality({i \in 1..Len(Since) : ~Since[i].raised})

CounterKey == DbKey(QualName)
\* The counter as INCR reads it: the decimal text under the key, 0 if absent.
Counter == IF CounterKey \in DOMAIN db THEN IntParse(db[CounterKey].val) ELSE 0
Inputs == RedisLrangeAll(db, DbKey(InputsName))
Outputs == RedisLrangeAll(db, DbKey(OutputsName))

\* The finished call that returned this key text, if any.
CallOfKey(key) == {i \in 1..Len(calls) : ~calls[i].raised /\ calls[i].val.type = "str"
                                          /\ calls[i].val.v = key}

Idle == InFlight = {}

\* C1: once a Cache is constructed and N store calls have each completed,
\* the counter under "Cache.store" is N: the key holds the decimal text of N
\* when N >= 1 and is absent (INCR's 0) when N = 0.
C1_CounterEqualsCalls ==
    (Idle /\ AllCompleted) =>
        /\ Counter = Len(Since)
        /\ IF Len(Since) = 0
           THEN CounterKey \notin DOMAIN db
           ELSE db[CounterKey] = [kind |-> "string", val |-> Digits(Len(Since))]

C1_Witness ==
    /\ Idle /\ AllCompleted /\ epoch = 1 /\ Len(Since) = 2
    /\ db[CounterKey].val = <<50>>

\* C2: after N completed sequential store calls on a fresh Cache, inputs and
\* outputs each have N entries, the i-th input is str(args) of the i-th call
\* and the i-th output is the key the i-th call returned.
C2_HistoryMatchesCalls ==
    (Idle /\ AllCompleted) =>
        /\ Len(Inputs) = Len(Since)
        /\ Len(Outputs) = Len(Since)
        /\ \A i \in 1..Len(Since) :
              /\ Inputs[i] = Utf8Encode(StrTuple(Since[i].args))
              /\ Since[i].val.type = "str"
              /\ Outputs[i] = Utf8Encode(Since[i].val.v)

\* store("foo") then store(100): inputs are "('foo',)" and "(100,)".
C2_Witness ==
    /\ Idle /\ AllCompleted /\ Len(Since) = 2
    /\ Since[1].args = <<Foo>> /\ Since[2].args = <<I100>>
    /\ Inputs = << <<40, 39, 102, 111, 111, 39, 44, 41>>, <<40, 49, 48, 48, 44, 41>> >>
    /\ Outputs = <<Utf8Encode(Since[1].val.v), Utf8Encode(Since[2].val.v)>>
    /\ Since[1].val.v # Since[2].val.v

\* What the caller of the single-threaded program last got back.
Last == ret[Main]

\* C3 as stated: get(store(d)) without a transform returns a value equal
\* to d, for text, binary, integer and floating-point d.
C3_RawRoundTripEqual ==
    \A i \in CallOfKey(Last.key) :
        (Last.op = "get" /\ i > epoch) => PyEq(Last.val, BoundData(calls[i]))

\* C3 amended: get(store(d)) without a transform returns the bytes Redis
\* holds for d (d itself when binary, the UTF-8 encoding of text, the
\* decimal text of an integer, the repr of a floating-point value); it is
\* equal to d when d is binary.
C3_RawRoundTripBytes ==
    \A i \in CallOfKey(Last.key) :
        (Last.op = "get" /\ i > epoch) =>
            LET d == BoundData(calls[i])
            IN  /\ ~Last.raised
                /\ Last.val.type = "bytes"
                /\ Last.val.v = RedisEncode(d)
                /\ d.type = "bytes" => PyEq(Last.val, d)

\* get(store(b"\xff")) is b"\xff"; store(1.5) left b"1.5".
C3_Witness ==
    /\ Last.op = "get" /\ Len(Since) = 2
    /\ Since[1].args = <<F15>> /\ Since[2].args = <<BFF>>
    /\ Last.key = Since[2].val.v
    /\ Last.val = BFF
    /\ db[DbKey(Since[1].val.v)].val = <<49, 46, 53>>

\* C4: get, get_str and get_int on a key that is not in the store return
\* None, raise nothing and do not apply the transform.
C4_AbsentIsNone ==
    (Last.op \in GetOps /\ DbKey(Last.key) \notin DOMAIN db) =>
        /\ ~Last.raised
        /\ Last.val = PyNone
        /\ ~Last.applied

C4_Witness ==
    /\ Last.op = "get_int" /\ Last.key = UnwrittenKey
    /\ Last.val = PyNone /\ ~Last.raised
    /\ Len(Since) >= 1

\* C5: get_int on an existing key returns the integer its bytes spell when
\* they are a base-10 integer literal, and raises ValueError to the caller
\* when they are not.
C5_GetIntParsesOrRaises ==
    (Last.op = "get_int" /\ DbKey(Last.key) \in DOMAIN db) =>
        LET b == db[DbKey(Last.key)].val
        IN  /\ Last.applied
            /\ IF IntValid(b)
               THEN ~Last.raised /\ Last.val = PyInt(IntParse(b))
               ELSE Last.raised /\ Last.val = PyExc("ValueError")

\* get_int of the key of store("foo") raises ValueError while the key of
\* store(100) is still there to give 100.
C5_Witness ==
    /\ Last.op = "get_int" /\ Len(Since) = 2
    /\ Since[1].args = <<I100>> /\ Since[2].args = <<Foo>>
    /\ Last.key = Since[2].val.v
    /\ Last.raised /\ Last.val = PyExc("ValueError")
    /\ IntValid(db[DbKey(Since[1].val.v)].val)
    /\ IntParse(db[DbKey(Since[1].val.v)].val) = 100

\* C6: constructing a Cache leaves the store empty: no counter, no inputs,
\* no outputs, and every key generated before reports absent on get.
C6_ConstructEmpties ==
    /\ Last.op = "init" =>
          /\ CounterKey \notin DOMAIN db
          /\ Inputs = <<>> /\ Outputs = <<>>
          /\ \A n \in 1..issued : DbKey(UuidText(n)) \notin DOMAIN db
          /\ db = EmptyDb
    /\ \A i \in CallOfKey(Last.key) :
          (Last.op \in GetOps /\ i <= epoch) => (~Last.raised /\ Last.val = PyNone)

\* A key returned before the construction is asked for after it.
C6_Witness ==
    /\ epoch >= 2 /\ Len(calls) = epoch
    /\ ~calls[1].raised
    /\ Last.op = "get_str" /\ Last.key = calls[1].val.v
    /\ Last.val = PyNone
    /\ db = EmptyDb

\* C7: get_str(store(t)) is t for text t and get_int(store(n)) is n for an
\* integer n; after c = Cache(), k1 = c.store("foo"), k2 = c.store(100) the
\* counter is 2, inputs and outputs have 2 entries each, get_str(k1) is
\* "foo" and get_int(k2) is 100.
C7_TypedRoundTrip ==
    /\ \A i \in CallOfKey(Last.key) :
          i > epoch =>
            LET d == BoundData(calls[i])
            IN  /\ (Last.op = "get_str" /\ d.type = "str") =>
                      (~Last.raised /\ Last.val = d)
                /\ (Last.op = "get_int" /\ d.type = "int") =>
                      (~Last.raised /\ Last.val = d)
    /\ (/\ Idle /\ AllCompleted /\ Len(Since) = 2
        /\ Since[1].args = <<Foo>> /\ Since[2].args = <<I100>>) =>
          /\ Counter = 2 /\ Len(Inputs) = 2 /\ Len(Outputs) = 2
          /\ (Last.op = "get_str" /\ Last.key = Since[1].val.v) =>
                Last.val = PyStr(<<102, 111, 111>>)
          /\ (Last.op = "get_int" /\ Last.key = Since[2].val.v) =>
                Last.val = PyInt(100)

C7_Witness ==
    /\ epoch = 0 /\ Idle /\ AllCompleted /\ Len(Since) = 2
    /\ Since[1].args = <<Foo>> /\ Since[2].args = <<I100>>
    /\ Last.op = "get_int" /\ Last.key = Since[2].val.v
    /\ Last.val = PyInt(100) /\ Last.applied
    /\ Counter = 2 /\ Len(Inputs) = 2 /\ Len(Outputs) = 2

\* C8: for every completed call store(d) the caller receives exactly the key
\* under which the raw operation wrote d, the entry appended to outputs is
\* that key and the entry appended to inputs is str of the positional
\* arguments the caller passed.
C8_WrappersTransparent ==
    (Last.op = "store" /\ ~Last.raised) =>
        /\ Last.val.type = "str"
        /\ Len(calls) >= 1
        /\ LET call == calls[Len(calls)]
               k == Last.val.v
           IN  /\ call.val = Last.val
               /\ k = UuidText(issued)
               /\ DbKey(k) \in DOMAIN db
               /\ db[DbKey(k)] =
                     [kind |-> "string", val |-> RedisEncode(BoundData(call))]
               /\ Outputs # <<>> /\ Outputs[Len(Outputs)] = Utf8Encode(k)
               /\ Inputs # <<>>
               /\ Inputs[Len(Inputs)] = Utf8Encode(StrTuple(call.args))

\* store(data="foo") returned its key: the input recorded is "()".
C8_Witness ==
    /\ Last.op = "store" /\ ~Last.raised /\ Len(Since) = 2
    /\ Since[2].args = <<>> /\ Since[2].kwargs = <<Foo>>
    /\ Last.val = Since[2].val
    /\ db[DbKey(Last.val.v)].val = <<102, 111, 111>>
    /\ Inputs[2] = <<40, 41>>
    /\ Outputs[2] = Utf8Encode(Last.val.v)

\* C9: the counter is incremented by 1 before the wrapped operation runs and
\* the increment stays when the wrapped operation fails: the counter is the
\* number of calls finished since construction, failed ones included, plus 1
\* while a call is in flight; at the start of the wrapped operation the
\* call's input is not recorded yet.
C9_CountKeptOnFailure ==
    /\ Counter = Len(Since) + (IF Main \in StoresInFlight THEN 1 ELSE 0)
    /\ pc[Main] = "hist_in" => Len(Inputs) = Len(Since)
    /\ (Last.op = "store" /\ Last.raised) =>
          (Len(Since) >= 1 /\ Since[Len(Since)].raised /\ Counter = Len(Since))

\* store("foo") completed, then store(None) failed: the counter is 2.
C9_Witness ==
    /\ Last.op = "store" /\ Last.raised /\ Len(Since) = 2
    /\ ~Since[1].raised /\ Since[2].raised /\ Since[2].args = <<PyNone>>
    /\ db[CounterKey].val = <<50>>

\* C10: when the wrapped store raises, the call's input is already in inputs
\* and no output is appended for it, so inputs is one longer than outputs
\* for each failed call, and the exception reaches the caller.
C10_FailedCallSkipsOutput ==
    /\ Idle => (Len(Inputs) = Len(Since) /\ Len(Outputs) = NumCompleted)
    /\ (Last.op = "store" /\ Last.raised) =>
          /\ Len(Since) >= 1
          /\ LET call == Since[Len(Since)]
             IN  /\ call.raised
                 /\ Last.val = PyExc("DataError") /\ call.val = Last.val
                 /\ Inputs[Len(Inputs)] = Utf8Encode(StrTuple(call.args))
          /\ Len(Inputs) =
                Len(Outputs) + Cardinality({i \in 1..Len(Since) : Since[i].raised})

\* store("foo") completed, then store(None) failed: 2 inputs, 1 output, the
\* last input being "(None,)".
C10_Witness ==
    /\ Last.op = "store" /\ Last.raised /\ Last.val = PyExc("DataError")
    /\ Len(Since) = 2 /\ ~Since[1].raised /\ Since[2].raised
    /\ Len(Inputs) = 2 /\ Len(Outputs) = 1
    /\ Inputs[2] = <<40, 78, 111, 110, 101, 44, 41>>

\* What the single-threaded program's last call printed.
Printed == out[Main]

\* C11: replay with nothing recorded (no counter key, both lists empty)
\* ends without error, having printed the header with a count of 0 and no
\* transcript line.
C11_ReplayOfNothing ==
    (/\ Last.op = "replay"
     /\ CounterKey \notin DOMAIN db /\ Inputs = <<>> /\ Outputs = <<>>) =>
        /\ ~Last.raised
        /\ Printed = <<HeaderLine(QualName, <<48>>)>>

\* C12: after N >= 1 store calls since the last construction, replay of the
\* store operation prints a header naming "Cache.store" and the count N,
\* the value of the counter.
C12_ReplayHeaderCount ==
    (Last.op = "replay" /\ Idle /\ Len(Since) >= 1) =>
        /\ ~Last.raised
        /\ Len(Printed) >= 1
        /\ Printed[1] = HeaderLine(QualName, Digits(Len(Since)))
        /\ Counter = Len(Since)

\* C13: replay prints exactly min(len(inputs), len(outputs)) transcript
\* lines, the i-th pairing the i-th input with the i-th output, and raises
\* no error when the two lists differ in length.
C13_ReplayPrefix ==
    (Last.op = "replay" /\ Idle /\ Len(Since) >= 1) =>
        /\ ~Last.raised
        /\ Len(Printed) = 1 + Min(Len(Inputs), Len(Outputs))
        /\ \A i \in 1..Min(Len(Inputs), Len(Outputs)) :
              Printed[i + 1] =
                  CallLine(QualName, Utf8Decode(Inputs[i]), Utf8Decode(Outputs[i]))

\* A step of replay: one that starts, continues or ends a replay call.
ReplayStep ==
    \E c \in Clients :
        \/ pc[c] \in {"replay_in", "replay_out"}
        \/ pc'[c] \in {"replay_in", "replay_out"}
        \/ pc[c] = "idle" /\ pc'[c] = "idle" /\ ret'[c].op = "replay"

\* C14: replay is read-only: every step of a replay call leaves the counter,
\* the inputs list, the outputs list and every stored record as they were.
C14_ReplayReadOnly ==
    [][ReplayStep =>
          /\ db' = db
          /\ Counter' = Counter /\ Inputs' = Inputs /\ Outputs' = Outputs]_vars

\* A replay that ran to its end over a skewed history: store("foo")
\* completed and store(None) failed, so one transcript line was printed.
C14_Witness ==
    /\ Last.op = "replay" /\ ~Last.raised
    /\ Len(Since) = 2 /\ ~Since[1].raised /\ Since[2].raised
    /\ Len(Inputs) = 2 /\ Len(Outputs) = 1
    /\ Len(Printed) = 2
    /\ Printed[1] = HeaderLine(QualName, <<50>>)
    /\ Printed[2] = CallLine(QualName, StrTuple(<<Foo>>), Since[1].val.v)

\* The stored records: every key but the counter and the two lists.
Records == (DOMAIN db) \ {CounterKey, DbKey(InputsName), DbKey(OutputsName)}

\* 1 when the program's store call in flight stands at one of these places.
At(places) == IF pc[Main] \in places THEN 1 ELSE 0

\* C15: within a store call the effects happen once each, in the order
\* increment, input append, record write, output append: at every point of
\* the call exactly the effects up to that point are there, so no input is
\* recorded before its increment and no record written before its input.
C15_EffectsInOrder ==
    /\ Counter = Len(Since) + At({"hist_in", "raw", "hist_out"})
    /\ Len(Inputs) = Len(Since) + At({"raw", "hist_out"})
    /\ Cardinality(Records) = NumCompleted + At({"hist_out"})
    /\ Len(Outputs) = NumCompleted
    /\ pc[Main] = "raw" =>
          Inputs[Len(Inputs)] = Utf8Encode(StrTuple(frame[Main].args))
    /\ pc[Main] = "hist_out" =>
          /\ DbKey(frame[Main].key) \in Records
          /\ \A i \in 1..Len(Outputs) : Outputs[i] # Utf8Encode(frame[Main].key)

\* The second call has written its record and not yet its output.
C15_Witness ==
    /\ pc[Main] = "hist_out" /\ Len(Since) = 1 /\ ~Since[1].raised
    /\ Counter = 2 /\ Len(Inputs) = 2 /\ Cardinality(Records) = 2
    /\ Len(Outputs) = 1

\* How often x occurs in a list.
Count(seq, x) == Cardinality({i \in 1..Len(seq) : seq[i] = x})

\* The clients whose store call has recorded its input and not its output.
Between == {c \in Clients : pc[c] \in {"raw", "hist_out"}}

\* C16: when clients call store concurrently on one store, under every
\* interleaving a call's input is in inputs before its output is appended,
\* and once all calls have completed the counter is the number of calls and
\* inputs and outputs hold exactly one entry per call.
C16_SharedCallsOrdered ==
    /\ \A c \in Clients :
          pc[c] = "hist_out" =>
              /\ Count(Inputs, Utf8Encode(StrTuple(frame[c].args))) >= 1
              /\ Count(Outputs, Utf8Encode(frame[c].key)) = 0
    /\ \A call \in SharedStoreCalls :
          Count(Inputs, Utf8Encode(StrTuple(call.args))) =
              Cardinality({i \in 1..Len(Since) : Since[i].args = call.args})
                  + Cardinality({c \in Between : frame[c].args = call.args})
    /\ \A i \in 1..Len(Since) :
          ~Since[i].raised => Count(Outputs, Utf8Encode(Since[i].val.v)) = 1
    /\ (StoresInFlight = {} /\ AllCompleted) =>
          /\ Counter = Len(Since)
          /\ Len(Inputs) = Len(Since)
          /\ Len(Outputs) = Len(Since)

\* Two calls by two clients overlapped: the call that finished second had
\* recorded its input first.
C16_Witness ==
    /\ StoresInFlight = {} /\ AllCompleted /\ Len(Since) = 2
    /\ Since[1].args # Since[2].args
    /\ Inputs[1] = Utf8Encode(StrTuple(Since[2].args))
    /\ Outputs[1] = Utf8Encode(Since[1].val.v)
    /\ ret[1].op = "store" /\ ret[2].op = "store"
    /\ Counter = 2

\* C19: under every interleaving of store calls, completing or failing,
\* with no Cache constructed while a store call is in flight:
\* counter >= len(inputs) >= len(outputs), and len(inputs) - len(outputs) is
\* the number of calls between their input append and their output append
\* plus the number of calls that failed after recording their input.
C19_CountsOrdered ==
    /\ Counter >= Len(Inputs)
    /\ Len(Inputs) >= Len(Outputs)
    /\ Len(Inputs) - Len(Outputs) =
          Cardinality(Between)
              + Cardinality({i \in 1..Len(Since) : Since[i].raised})

\* One call failed and another stands between its two appends.
C19_Witness ==
    /\ Len(Since) = 1 /\ Since[1].raised
    /\ Cardinality(Between) = 1
    /\ Len(Inputs) = 2 /\ Len(Outputs) = 0 /\ Counter = 2

\* The values written under a key by a store call, finished or in flight.
StoredUnder(key) ==
    {BoundData(calls[i]) : i \in CallOfKey(key)}
        \cup {BoundData(frame[c]) :
                 c \in {x \in Clients : frame[x].op = "store" /\ frame[x].key = key}}

\* C20: under every interleaving of a get, get_str or get_int with a Cache
\* construction by another client, the call returns absent or the transform
\* of the bytes stored under the key; the transform is never applied to an
\* absent value and the call does not fail because the record vanished
\* between the existence check and the read.
C20_GetNeverTransformsAbsent ==
    \A c \in Clients :
        ret[c].op \in GetOps =>
            \/ ret[c] = Returned(ret[c].op, ret[c].key, PyNone, FALSE)
            \/ \E d \in StoredUnder(ret[c].key) :
                  ret[c] = ApplyFn(ret[c].op, ret[c].key, PyBytes(RedisEncode(d)))

\* C17: a stored record is immutable: once store(d) has returned key k,
\* the record under k holds the bytes of d, and get(k) returns them, through
\* every further store, get, get_str, get_int and replay until a Cache is
\* constructed; every store call writes under a key that did not exist, so
\* no call overwrites a record.
C17_RecordsImmutable ==
    /\ [](\A i \in (epoch + 1)..Len(calls) :
            ~calls[i].raised =>
                /\ DbKey(calls[i].val.v) \in DOMAIN db
                /\ db[DbKey(calls[i].val.v)] =
                      [kind |-> "string", val |-> RedisEncode(BoundData(calls[i]))]
                /\ (Last.op = "get" /\ Last.key = calls[i].val.v) =>
                      Last.val = PyBytes(RedisEncode(BoundData(calls[i]))))
    /\ [][/\ (pc[Main] = "raw" /\ pc'[Main] = "hist_out") =>
                 DbKey(frame'[Main].key) \notin DOMAIN db
          /\ epoch' = epoch =>
                 \A k \in Records : k \in DOMAIN db' /\ db'[k] = db[k]]_vars

\* get of the first key after two further store calls: the bytes of the
\* first call's data, with three records in the database.
C17_Witness ==
    /\ Len(Since) = 3 /\ AllCompleted
    /\ Since[1].args = <<EAcute>> /\ Since[2].args = <<Foo>>
    /\ Last.op = "get" /\ Last.key = Since[1].val.v
    /\ Last.val = PyBytes(<<195, 169>>)
    /\ Cardinality(Records) = 3

\* A step of get, get_str or get_int: one that starts or ends such a call.
GetStep ==
    \E c \in Clients :
        \/ pc[c] = "get_read"
        \/ pc'[c] = "get_read"
        \/ pc[c] = "idle" /\ pc'[c] = "idle" /\ ret'[c].op \in GetOps

\* C18: get, get_str and get_int are read-only: whether the key exists or
\* not and whether the transform succeeds or fails, every step of such a
\* call leaves the counter, both lists and all records as they were.
C18_GetReadOnly ==
    [][GetStep =>
          /\ db' = db
          /\ Counter' = Counter /\ Inputs' = Inputs /\ Outputs' = Outputs
          /\ Records' = Records]_vars

\* get_str of the key of store(b"\xff") failed to decode, with the record
\* and the history of the call in place.
C18_Witness ==
    /\ Last.op = "get_str" /\ Last.raised
    /\ Last.val = PyExc("UnicodeDecodeError")
    /\ Len(Since) = 1 /\ Since[1].args = <<BFF>>
    /\ Counter = 1 /\ Len(Inputs) = 1 /\ Len(Outputs) = 1
    /\ db[DbKey(Last.key)].val = <<255>>

====
